---- MODULE Spec2Model ----
(***************************************************************************)
(* A model of vocab-trainer (src/src/main.rs): the record parser, the quiz *)
(* state machine (GameState), the prompt classification of GameUI, the     *)
(* score file and the session driven by main / run_loop.                   *)
(*                                                                         *)
(* A Rust String is a sequence of one-character strings; Option<T> is a    *)
(* sequence of length at most one (None == << >>, Some(x) == <<x>>); the   *)
(* HashMap Scores is a function from its key set to Score records.         *)
(*                                                                         *)
(* A file holds bytes.  A byte below 0x80 is written as the one-character  *)
(* string of the ASCII character it encodes, a byte from 0x80 on as the    *)
(* string of its two hexadecimal digits ("C3"); the text of a file is the  *)
(* UTF-8 decoding of its bytes, which may fail.                            *)
(*                                                                         *)
(* A u32 is held in the 32 bits of an integer of the model: a value below  *)
(* 2^31 is itself, a value v from 2^31 on is v - 2^32 (the same bits read  *)
(* as an i32), so that u32::MAX is -1.  build is the profile the program   *)
(* was compiled with: the arithmetic of a debug build panics on overflow,  *)
(* that of a release build wraps.                                          *)
(***************************************************************************)
EXTENDS Integers, Sequences, FiniteSets, TLC

VARIABLES build, stdin, file, pc, state, question, last, count, loaded

vars == <<build, stdin, file, pc, state, question, last, count, loaded>>

(***************************************************************************)
(* Bounds of the model.                                                    *)
(***************************************************************************)
\* wrong submissions accepted for one question in a session
MaxMistakes == 2
\* calls made on a GameState when its two methods are interleaved freely
MaxCalls == 5

(***************************************************************************)
(* Strings.                                                                *)
(***************************************************************************)
None == << >>
Some(x) == <<x>>

TAB == "\t"
NL == "\n"
CR == "\r"

\* str::starts_with
starts_with(s, prefix) ==
    /\ Len(prefix) <= Len(s)
    /\ SubSeq(s, 1, Len(prefix)) = prefix

RECURSIVE Concat(_)
\* the concatenation of a sequence of strings
Concat(ss) == IF ss = << >> THEN << >> ELSE Head(ss) \o Concat(Tail(ss))

RECURSIVE FindFrom(_, _, _)
\* the first index >= i of s holding c, or Len(s) + 1
FindFrom(s, c, i) ==
    IF i > Len(s) \/ s[i] = c THEN i ELSE FindFrom(s, c, i + 1)

RECURSIVE split(_, _)
\* str::split(sep): the pieces between the separators, always at least one
split(s, sep) ==
    LET k == FindFrom(s, sep, 1)
    IN  IF k > Len(s) THEN <<s>>
        ELSE <<SubSeq(s, 1, k - 1)>> \o split(SubSeq(s, k + 1, Len(s)), sep)

\* the characters of the model that UTF-8 encodes in more than one byte, with
\* their bytes
Utf8 == [c \in {"é"} |-> <<"C3", "A9">>]

\* the bytes from 0x80 on
HighBytes == UNION {{Utf8[c][i] : i \in DOMAIN Utf8[c]} : c \in DOMAIN Utf8}

\* char::encode_utf8
encode_utf8(c) == IF c \in DOMAIN Utf8 THEN Utf8[c] ELSE <<c>>

RECURSIVE as_bytes(_)
\* str::as_bytes: the UTF-8 encoding of a string
as_bytes(s) ==
    IF s = << >> THEN << >> ELSE encode_utf8(Head(s)) \o as_bytes(Tail(s))

\* the character whose encoding the bytes begin with
first_char(bytes) == CHOOSE c \in DOMAIN Utf8 : starts_with(bytes, Utf8[c])

RECURSIVE Decode(_, _)
\* the characters acc followed by those the bytes encode, or None when the
\* bytes are no UTF-8: a byte from 0x80 on that begins no encoded character
Decode(bytes, acc) ==
    IF bytes = << >> THEN Some(acc)
    ELSE IF Head(bytes) \notin HighBytes
         THEN Decode(Tail(bytes), Append(acc, Head(bytes)))
    ELSE IF \E c \in DOMAIN Utf8 : starts_with(bytes, Utf8[c])
         THEN Decode(SubSeq(bytes, Len(Utf8[first_char(bytes)]) + 1, Len(bytes)),
                     Append(acc, first_char(bytes)))
    ELSE None

\* str::from_utf8
from_utf8(bytes) == Decode(bytes, << >>)

\* io::Result: Ok(x), or the error of kind InvalidData that reading text
\* from bytes that are no UTF-8 gives
Ok(x) == <<x>>
InvalidData == << >>

\* a line without the "\r" at its end, when the line was ended by a "\n"
strip_cr(line, ended) ==
    IF ended /\ line # << >> /\ line[Len(line)] = CR
    THEN SubSeq(line, 1, Len(line) - 1) ELSE line

\* BufRead::read_line and what lines() makes of it: the bytes up to a "\n"
\* are decoded, the "\n" and a "\r" right before it are dropped
read_line(chunk, ended) ==
    IF from_utf8(chunk) = None THEN InvalidData
    ELSE Ok(strip_cr(from_utf8(chunk)[1], ended))

RECURSIVE lines(_)
\* BufRead::lines: one io::Result for the bytes up to each "\n"; a last line
\* that no "\n" ends is yielded when it is not empty
lines(data) ==
    IF data = << >> THEN << >>
    ELSE IF FindFrom(data, NL, 1) > Len(data) THEN <<read_line(data, FALSE)>>
    ELSE <<read_line(SubSeq(data, 1, FindFrom(data, NL, 1) - 1), TRUE)>>
            \o lines(SubSeq(data, FindFrom(data, NL, 1) + 1, Len(data)))

(***************************************************************************)
(* u32.                                                                    *)
(***************************************************************************)
\* u32::MAX, 4294967295
U32_MAX == -1

\* 2^16: a u32 is taken apart into its upper and its lower 16 bits
HALF == 65536

hi16(x) == IF x >= 0 THEN x \div HALF ELSE (x \div HALF) + HALF
lo16(x) == x % HALF

\* the u32 of upper bits hi and lower bits lo
from16(hi, lo) ==
    IF 2 * hi >= HALF THEN (hi - HALF) * HALF + lo ELSE hi * HALF + lo

\* the u32 of the half sums hi and lo once the carry of lo is moved into hi,
\* modulo 2^32, and whether the value left u32
carry16(hi, lo) ==
    [value |-> from16((hi + lo \div HALF) % HALF, lo % HALF),
     overflow |-> hi + lo \div HALF >= HALF]

\* u32::overflowing_add: the wrapped sum and whether it left u32
overflowing_add(a, b) == carry16(hi16(a) + hi16(b), lo16(a) + lo16(b))

\* u32::checked_add
checked_add(a, b) ==
    LET r == overflowing_add(a, b)
    IN  IF r.overflow THEN None ELSE Some(r.value)

\* the profiles of a build
Builds == {"debug", "release"}

\* what a call that panics returns: nothing
PANIC == << >>

\* a + b on u32 as the build compiles it: on overflow a debug build panics
\* with 'attempt to add with overflow', a release build wraps
add(a, b) ==
    LET r == overflowing_add(a, b)
    IN  IF r.overflow /\ build = "debug" THEN PANIC ELSE Some(r.value)

DigitChars == <<"0", "1", "2", "3", "4", "5", "6", "7", "8", "9">>

\* the quotient and the remainder of a u32 by 10
div10(n) ==
    (hi16(n) \div 10) * HALF + ((hi16(n) % 10) * HALF + lo16(n)) \div 10
mod10(n) == ((hi16(n) % 10) * HALF + lo16(n)) % 10

RECURSIVE display_u32(_)
\* Display for u32: the decimal digits, no sign, no leading zero
\* (the quotient is bound by a set of one element, so that it is a value
\* computed once when the next digit is asked for)
display_u32(n) ==
    IF n >= 0 /\ n < 10 THEN <<DigitChars[n + 1]>>
    ELSE CHOOSE digits \in
            {display_u32(q) \o <<DigitChars[mod10(n) + 1]>> : q \in {div10(n)}} :
            TRUE

DigitValue(c) == CHOOSE d \in 0..9 : DigitChars[d + 1] = c

IsDigit(c) == \E d \in 0..9 : DigitChars[d + 1] = c

\* u32::checked_mul by the radix 10
checked_mul10(a) ==
    LET r == carry16(hi16(a) * 10, lo16(a) * 10)
    IN  IF r.overflow THEN None ELSE Some(r.value)

\* acc * 10 + d as from_str_radix computes it, checked: None on overflow
checked_push(acc, d) ==
    LET x10 == checked_mul10(acc)
    IN  IF x10 = None THEN None ELSE checked_add(x10[1], d)

RECURSIVE DigitsValue(_, _)
\* the digit loop of from_str_radix: None as soon as the value leaves u32
DigitsValue(s, acc) ==
    IF s = << >> THEN Some(acc)
    ELSE LET next == checked_push(acc, DigitValue(Head(s)))
         IN  IF next = None THEN None ELSE DigitsValue(Tail(s), next[1])

\* str::parse::<u32>: an optional "+" and then one or more decimal digits; an
\* empty string, a lone sign, any other character or a number above u32::MAX
\* gives no value
parse_u32(s) ==
    LET digits == IF s # << >> /\ s[1] = "+" THEN Tail(s) ELSE s
    IN  IF digits # << >> /\ \A i \in 1..Len(digits) : IsDigit(digits[i])
        THEN DigitsValue(digits, 0)
        ELSE None

(***************************************************************************)
(* Entry::parse.                                                           *)
(***************************************************************************)
RECURSIVE TermEnd(_, _)
\* the term loop: the index of the space of the first " /" at or after i, or
\* Len(input) + 1 when the line holds none
TermEnd(input, i) ==
    IF i > Len(input) THEN i
    ELSE IF input[i] = " " /\ i < Len(input) /\ input[i + 1] = "/" THEN i
    ELSE TermEnd(input, i + 1)

RECURSIVE ParsePhrases(_, _, _, _, _)
\* the phrase loop over the characters from index i on
ParsePhrases(input, i, phrases, cur, is_comment) ==
    IF i > Len(input) THEN phrases
    ELSE IF input[i] = "/"
         THEN ParsePhrases(input, i + 1, Append(phrases, cur),
                           [body |-> << >>, comment |-> << >>], FALSE)
    ELSE IF input[i] = ";"
         THEN ParsePhrases(input, i + 1, phrases, cur, TRUE)
    ELSE IF is_comment
         THEN ParsePhrases(input, i + 1, phrases,
                           [cur EXCEPT !.comment = Append(@, input[i])], TRUE)
    ELSE ParsePhrases(input, i + 1, phrases,
                      [cur EXCEPT !.body = Append(@, input[i])], FALSE)

\* Entry::parse: None for an empty line and for a line starting with ";"
parse(input) ==
    IF input = << >> \/ input[1] = ";" THEN None
    ELSE LET e == TermEnd(input, 1)
         IN  Some([term |-> SubSeq(input, 1, e - 1),
                   phrases |-> ParsePhrases(SubSeq(input, e + 2, Len(input)), 1,
                                            << >>,
                                            [body |-> << >>, comment |-> << >>],
                                            FALSE)])

RECURSIVE load_entries_stopping(_)
\* load_entries as it would be if it stopped at the first line that gives no
\* entry
load_entries_stopping(ls) ==
    IF ls = << >> \/ parse(Head(ls)) = None THEN << >>
    ELSE parse(Head(ls)) \o load_entries_stopping(Tail(ls))

RECURSIVE load_entries(_)
\* load_entries: the entries of the lines that parse, in input order
load_entries(ls) ==
    IF ls = << >> THEN << >>
    ELSE parse(Head(ls)) \o load_entries(Tail(ls))

(***************************************************************************)
(* Score and GameState.                                                    *)
(***************************************************************************)
\* Score::increment_correct: the new Score, or PANIC
increment_correct(score) ==
    LET sum == add(score.correct, 1)
    IN  IF sum = PANIC THEN PANIC
        ELSE Some([correct |-> sum[1], incorrect |-> score.incorrect])

\* Score::increment_incorrect: the new Score, or PANIC
increment_incorrect(score) ==
    LET sum == add(score.incorrect, 1)
    IN  IF sum = PANIC THEN PANIC
        ELSE Some([correct |-> score.correct, incorrect |-> sum[1]])

\* Score::total_tries: the number, or PANIC
total_tries(score) == add(score.correct, score.incorrect)

\* Score::default
Score_default == [correct |-> 0, incorrect |-> 0]

\* HashMap::new
EmptyScores == [term \in {} |-> [correct |-> 0, incorrect |-> 0]]

\* HashMap::insert, also the insert of an Occupied or a Vacant entry
insert(scores, term, score) ==
    [t \in DOMAIN scores \cup {term} |-> IF t = term THEN score ELSE scores[t]]

\* GameState::new
GameState_new(entries, scores) ==
    [entries |-> entries, scores |-> scores, progress |-> 0, mistakes |-> 0]

\* next_question as it would be without the reset of mistakes
next_question_keeping_mistakes(self) ==
    IF self.progress < Len(self.entries)
    THEN LET i == self.progress
         IN  [state |-> [self EXCEPT !.progress = i + 1],
              ret |-> Some([index |-> i, entry |-> self.entries[i + 1]])]
    ELSE [state |-> self, ret |-> None]

\* next_question as it would be if the cursor started over at the end
next_question_wrapping(self) ==
    IF self.progress < Len(self.entries)
    THEN LET i == self.progress
         IN  [state |-> [self EXCEPT !.progress = i + 1, !.mistakes = 0],
              ret |-> Some([index |-> i, entry |-> self.entries[i + 1]])]
    ELSE [state |-> [self EXCEPT !.progress = 0], ret |-> None]

\* GameState::next_question: the state after the call and the value returned
next_question(self) ==
    IF self.progress < Len(self.entries)
    THEN LET i == self.progress
         IN  [state |-> [self EXCEPT !.progress = i + 1, !.mistakes = 0],
              ret |-> Some([index |-> i, entry |-> self.entries[i + 1]])]
    ELSE [state |-> self, ret |-> None]

\* the comparison of answer_question: String equality
is_correct(q, answer) == q.entry.term = answer

\* the scoring branch of answer_question: the score to store under the
\* answer, or PANIC when the increment panics
scored(scores, answer, mistakes) ==
    IF answer \in DOMAIN scores
    THEN IF mistakes = 0
         THEN increment_correct(scores[answer])
         ELSE increment_incorrect(scores[answer])
    ELSE IF mistakes = 0
         THEN Some([correct |-> 1, incorrect |-> 0])
         ELSE Some([correct |-> 0, incorrect |-> 1])

\* answer_question as it would be if a wrong submission were scored at once
answer_question_scoring_mistakes(self, q, answer) ==
    LET score == IF q.entry.term = answer
                 THEN scored(self.scores, answer, self.mistakes)
                 ELSE IF q.entry.term \in DOMAIN self.scores
                 THEN increment_incorrect(self.scores[q.entry.term])
                 ELSE Some([correct |-> 0, incorrect |-> 1])
    IN  IF score = PANIC
        THEN [state |-> self, ret |-> FALSE, panic |-> TRUE]
        ELSE IF q.entry.term = answer
        THEN [state |-> [self EXCEPT !.scores = insert(@, answer, score[1])],
              ret |-> TRUE, panic |-> FALSE]
        ELSE [state |-> [self EXCEPT !.mistakes = @ + 1,
                                     !.scores = insert(@, q.entry.term, score[1])],
              ret |-> FALSE, panic |-> FALSE]

\* GameState::answer_question: the state after the call and the value
\* returned, or, with panic, the state as it was when the increment of the
\* score panicked
answer_question(self, q, answer) ==
    IF is_correct(q, answer)
    THEN LET score == scored(self.scores, answer, self.mistakes)
         IN  IF score = PANIC
             THEN [state |-> self, ret |-> FALSE, panic |-> TRUE]
             ELSE [state |-> [self EXCEPT !.scores = insert(@, answer, score[1])],
                   ret |-> TRUE, panic |-> FALSE]
    ELSE [state |-> [self EXCEPT !.mistakes = @ + 1],
          ret |-> FALSE, panic |-> FALSE]

\* GameState::get_score
get_score(self, term) ==
    IF term \in DOMAIN self.scores THEN Some(self.scores[term]) ELSE None

\* GameUI::notify_correct: the number of tries it prints, or PANIC;
\* total_tries is the first sum of the counters the line needs
notify_correct(q, self) ==
    LET score == get_score(self, q.entry.term)
    IN  total_tries(IF score = None THEN Score_default ELSE score[1])

(***************************************************************************)
(* GameUI::wait_for_input.  What Editor::readline hands back is            *)
(* [kind, input]: kind "Ok" with the line typed, or "Interrupted", "Eof"   *)
(* or "Error" (any other ReadlineError) with no line.                      *)
(***************************************************************************)
QUIT == <<"q", "u", "i", "t">>

Return(input) == [tag |-> "Return", input |-> input]
Quit == [tag |-> "Quit", input |-> << >>]
Err == [tag |-> "Err", input |-> << >>]

\* the arm of an input starting with ":": input.get(1..) is the command
command_response(input) ==
    IF starts_with(QUIT, Tail(input)) THEN Quit ELSE Return(input)

\* GameUI::wait_for_input on the readline result rl
wait_for_input(rl) ==
    IF rl.kind = "Ok"
    THEN IF starts_with(rl.input, <<":">>)
         THEN command_response(rl.input)
         ELSE Return(rl.input)
    ELSE IF rl.kind \in {"Interrupted", "Eof"} THEN Quit
    ELSE Err

(***************************************************************************)
(* The score file: [exists, data], data the bytes it holds.                *)
(***************************************************************************)
NoFile == [exists |-> FALSE, data |-> << >>]
FileOf(data) == [exists |-> TRUE, data |-> data]

\* the bytes writeln! writes for one key: those of the term, and the tabs,
\* the digits and the "\n", which are ASCII
score_line(term, score) ==
    as_bytes(term) \o <<TAB>> \o display_u32(score.correct) \o <<TAB>>
                   \o display_u32(score.incorrect) \o <<NL>>

\* the orders in which a HashMap may hand out its keys
Orders(keys) ==
    {o \in [1..Cardinality(keys) -> keys] :
        \A i, j \in DOMAIN o : i # j => o[i] # o[j]}

\* the bytes the for loop of save_scores writes, the keys taken in this order
written(scores, order) ==
    Concat([i \in DOMAIN order |-> score_line(order[i], scores[order[i]])])

\* OpenOptions::new().write(true).create(true).open and the writes through
\* it: the file is created when absent and is not truncated; the bytes go
\* to offsets 0.. and what the file held beyond them stays
write_from_start(f, bytes) ==
    FileOf(bytes \o SubSeq(f.data, Len(bytes) + 1, Len(f.data)))

\* save_scores as it would be if the for loop ended after its first key
save_scores_first_key(f, scores, order) ==
    write_from_start(f, written(scores, IF order = << >> THEN order
                                        ELSE <<order[1]>>))

\* save_scores: the score file after the call
save_scores(f, scores, order) == write_from_start(f, written(scores, order))

\* one line of the score file: the term and the two counters, a missing or
\* unparsable counter being 0
score_of_line(line) ==
    LET parts == split(line, TAB)
        field(k) == IF Len(parts) >= k /\ parse_u32(parts[k]) # None
                    THEN parse_u32(parts[k])[1] ELSE 0
    IN  [term |-> parts[1],
         score |-> [correct |-> field(2), incorrect |-> field(3)]]

RECURSIVE load_lines(_, _)
\* the for loop of load_scores: a later line of a term replaces an earlier;
\* the ? operator returns the error of a line that is no UTF-8
load_lines(ls, scores) ==
    IF ls = << >> THEN Ok(scores)
    ELSE IF Head(ls) = InvalidData THEN InvalidData
    ELSE LET r == score_of_line(Head(ls)[1])
         IN  load_lines(Tail(ls), insert(scores, r.term, r.score))

\* load_scores: an absent file gives the empty mapping
load_scores(f) ==
    IF f.exists THEN load_lines(lines(f.data), EmptyScores)
    ELSE Ok(EmptyScores)

\* no GameState is made
NoState == << >>

\* main up to the call of run_loop: the GameState made of the entries of
\* standard input and of the scores of the score file, or none when
\* load_scores fails and expect("load scores") panics
new_state(input, f) ==
    IF load_scores(f) = InvalidData THEN NoState
    ELSE GameState_new(load_entries(input), load_scores(f)[1])

(***************************************************************************)
(* The inputs of the model: the record streams read from standard input,   *)
(* the score files a launch may find, and the lines typed at the prompt.   *)
(***************************************************************************)
LineDog ==
    <<"d", "o", "g", " ", "/", " ", "a", "n", " ", "a", "n", "i", "m", "a",
      "l", " ", "/">>
LineCat ==
    <<"c", "a", "t", " ", "/", " ", "a", " ", "f", "e", "l", "i", "n", "e",
      " ", "/">>
LineCat2 ==
    <<"c", "a", "t", " ", "/", " ", "a", " ", "p", "e", "t", " ", ";", "i",
      "n", "f", "o", "r", "m", "a", "l", "/">>
LineColonQ ==
    <<":", "q", " ", "/", " ", "t", "o", " ", "l", "e", "a", "v", "e", " ",
      "/">>
LineTabbed ==
    <<"a", "\t", "b", " ", "/", " ", "t", "a", "b", "b", "e", "d", " ",
      "/">>
LineNote ==
    <<";", " ", "a", " ", "n", "o", "t", "e">>
LineNoTerm ==
    <<" ", "/", " ", "n", "o", " ", "t", "e", "r", "m", " ", "/">>
LineColon ==
    <<":", " ", "/", " ", "a", " ", "c", "o", "l", "o", "n", " ", "/">>
LineAccent ==
    <<"é", " ", "/", " ", "a", " ", "l", "e", "t", "t", "e", "r", " ", "/">>

\* the record streams: the two-entry stream of the end-to-end scenario, terms
\* that hold a tab, start with the command prefix or are empty, skipped
\* lines, a term given twice, a term of two bytes, and the empty stream
InputStreams ==
    { <<LineDog, LineCat>>,
      <<LineAccent>>,
      <<LineTabbed, LineColonQ>>,
      <<LineNote, << >>, LineCat>>,
      <<LineCat, LineNote, LineDog, LineCat2>>,
      <<LineNoTerm, LineColon>>,
      << >> }

DataDog ==
    <<"d", "o", "g", "\t", "1", "\t", "0", "\n">>
DataShort ==
    <<"c", "a", "t", "\t", "+", "2", "\n", "d", "o", "g">>
DataTwice ==
    <<"c", "a", "t", "\t", "1", "\t", "0", "\n", "c", "a", "t", "\t", "0",
      "\t", "x", "\t", "7", "\r", "\n", "\n">>

\* dog at u32::MAX in both counters; cat one below u32::MAX and 1
DataFull ==
    <<"d", "o", "g", "\t", "4", "2", "9", "4", "9", "6", "7", "2", "9", "5",
      "\t", "4", "2", "9", "4", "9", "6", "7", "2", "9", "5", "\n", "c", "a",
      "t", "\t", "4", "2", "9", "4", "9", "6", "7", "2", "9", "4", "\t", "1",
      "\n">>
\* counters above u32::MAX
DataOver ==
    <<"d", "o", "g", "\t", "4", "2", "9", "4", "9", "6", "7", "2", "9", "6",
      "\t", "9", "9", "9", "9", "9", "9", "9", "9", "9", "9", "9", "\n">>

\* the term "é", of two bytes, with one correct answer
DataAccent ==
    <<"C3", "A9", "\t", "1", "\t", "0", "\n">>
\* the same line with an "é" after its last counter, which then counts as 0:
\* the line saved for it ends between the two bytes of that "é"
DataCut ==
    <<"C3", "A9", "\t", "1", "\t", "0", "C3", "A9", "\n">>
\* a second line that is no UTF-8
DataInvalid ==
    <<"c", "a", "t", "\t", "1", "\t", "0", "\n", "A9", "\n">>

\* the score files: none, one written by an earlier session, one with missing
\* counters and no final newline, one that names a term twice and holds an
\* unparsable counter, a fourth field and an empty line, one whose counters
\* are at the end of u32, one whose counters are beyond it, two whose term
\* is not ASCII and one that is no UTF-8
ScoreFiles ==
    {NoFile, FileOf(DataDog), FileOf(DataShort), FileOf(DataTwice),
     FileOf(DataFull), FileOf(DataOver), FileOf(DataAccent), FileOf(DataCut),
     FileOf(DataInvalid)}

TypedWrong ==
    <<"w", "r", "o", "n", "g">>
TypedUpper ==
    <<"D", "o", "g">>

\* the lines typed that are not a term of the stream: the command prefix
\* alone and followed by each leading part of "quit", by more than "quit" and
\* by another word; a wrong word, a term in another case and the empty line
TypedLines ==
    {<<":">> \o SubSeq(QUIT, 1, n) : n \in 0..Len(QUIT)}
        \cup {<<":">> \o QUIT \o <<"s">>, <<":", "x">>}
        \cup {TypedWrong, TypedUpper, << >>}

\* what Editor::readline may hand back at a prompt: a typed line, among them
\* the term of every entry, or one of its errors
ReadlineResults(entries) ==
    {[kind |-> "Ok", input |-> t] :
        t \in TypedLines \cup {entries[i].term : i \in DOMAIN entries}}
        \cup {[kind |-> k, input |-> << >>] : k \in {"Interrupted", "Eof", "Error"}}

(***************************************************************************)
(* QuestionHint::hint.  The term goes through enumerate, the masking map   *)
(* and skip; the closure of the map counts in symbols the characters that  *)
(* are no ASCII letter, and runs on the skipped characters too.            *)
(***************************************************************************)
\* char::is_ascii_alphabetic
AsciiAlphabetic ==
    {"a", "b", "c", "d", "e", "f", "g", "h", "i", "j", "k", "l", "m", "n",
     "o", "p", "q", "r", "s", "t", "u", "v", "w", "x", "y", "z", "A", "B",
     "C", "D", "E", "F", "G", "H", "I", "J", "K", "L", "M", "N", "O", "P",
     "Q", "R", "S", "T", "U", "V", "W", "X", "Y", "Z"}

is_ascii_alphabetic(c) == c \in AsciiAlphabetic

\* the mask character
MASK == "_"

\* what i - symbols gives when symbols is greater than i: the subtraction of
\* usize overflows (a panic in a debug build, a wrapped value in a release
\* build); the character is marked
Overflow == "attempt to subtract with overflow"

RECURSIVE masked(_, _, _, _)
\* the map closure on the characters of term from index i (counted from 0)
\* on, symbols being the count the closure holds
masked(term, mistakes, i, symbols) ==
    IF i >= Len(term) THEN << >>
    ELSE LET c == term[i + 1]
         IN  IF ~is_ascii_alphabetic(c)
             THEN <<c>> \o masked(term, mistakes, i + 1, symbols + 1)
             ELSE IF i < symbols
             THEN <<Overflow>> \o masked(term, mistakes, i + 1, symbols)
             ELSE IF i - symbols < mistakes
             THEN <<c>> \o masked(term, mistakes, i + 1, symbols)
             ELSE <<MASK>> \o masked(term, mistakes, i + 1, symbols)

\* Iterator::skip(n) and collect
skip(chars, n) == SubSeq(chars, n + 1, Len(chars))

\* hint as it would be with the index alone compared to mistakes, the
\* characters that are no letter not taken off
hint_counting_symbols(self, line) ==
    LET term == self.entry.term
        shown(i) == IF ~is_ascii_alphabetic(term[i]) THEN term[i]
                    ELSE IF i - 1 < self.mistakes THEN term[i] ELSE MASK
    IN  Some(skip([i \in 1..Len(term) |-> shown(i)], Len(line)))

\* hint as it would be with skip ahead of enumerate and map: the characters
\* left are masked as a term of their own
hint_skipping_first(self, line) ==
    Some(masked(skip(self.entry.term, Len(line)), self.mistakes, 0, 0))

\* QuestionHint::hint(line): the hint shown after the typed line
hint(self, line) ==
    Some(skip(masked(self.entry.term, self.mistakes, 0, 0), Len(line)))

(***************************************************************************)
(* The session: main.  pc is the place main has reached; question is the   *)
(* Question run_loop holds (None outside the loop body); last records the  *)
(* latest call (overflow: it ended in the panic of an addition) and count  *)
(* the calls made so far.                                                  *)
(***************************************************************************)
NoCall ==
    [op |-> "none", asked |-> None, readline |-> None, hint |-> None,
     response |-> None, q |-> None, answer |-> None, correct |-> None,
     line |-> None, hinted |-> None, overflow |-> FALSE]

\* the submissions of the end-to-end scenario
Scenario == <<SubSeq(LineDog, 1, 3), TypedWrong, SubSeq(LineCat, 1, 3)>>

\* count: the calls of next_question, answer_question and save_scores so
\* far, the wrong submissions since the question asked was presented, how
\* many submissions of the Scenario the session has followed (-1 once it
\* left it), and the scores the launch loaded
NoCount ==
    [next |-> 0, answer |-> 0, save |-> 0, wrong |-> 0, script |-> 0,
     launch |-> EmptyScores]

\* the scenario count after the submission of input
Followed(script, input) ==
    IF script >= 0 /\ script < Len(Scenario) /\ input = Scenario[script + 1]
    THEN script + 1 ELSE -1

\* main has made a GameState
Launched == state # NoState

\* main up to the call of run_loop: the entries of standard input and the
\* scores of the score file make the GameState, or the launch panics
Init ==
    /\ build \in Builds
    /\ stdin \in InputStreams
    /\ file \in ScoreFiles
    /\ state = new_state(stdin, file)
    /\ pc = IF Launched THEN "run_loop" ELSE "panic"
    /\ question = None
    /\ last = NoCall
    /\ count = IF Launched THEN [NoCount EXCEPT !.launch = state.scores]
               ELSE NoCount
    /\ loaded = None

\* the head of the outer loop of run_loop: the next question is presented, or
\* the loop ends and run_loop returns Ok
RunLoopNext ==
    /\ pc = "run_loop"
    /\ LET r == next_question(state)
       IN  /\ state' = r.state
           /\ question' = r.ret
           /\ pc' = IF r.ret # None THEN "wait_for_input" ELSE "save_scores"
           /\ last' = [NoCall EXCEPT !.op = "next_question", !.asked = r.ret]
           /\ count' = [count EXCEPT !.next = @ + 1,
                                     !.wrong = IF r.ret # None THEN 0 ELSE @]
    /\ UNCHANGED <<build, stdin, file, loaded>>

\* the QuestionHint of a prompt
QuestionHint == [entry |-> question[1].entry, mistakes |-> state.mistakes]

\* the Return arm as it would be with break after either outcome: the inner
\* loop ends on an incorrect answer too
RunLoopAnswer_breaking ==
    /\ pc = "wait_for_input"
    /\ \E rl \in ReadlineResults(state.entries) :
          LET response == wait_for_input(rl)
              r == answer_question(state, question[1], response.input)
              panics == r.panic \/ (r.ret /\ notify_correct(question[1], r.state) = PANIC)
          IN  /\ response.tag = "Return"
              /\ r.ret \/ r.panic \/ state.mistakes < MaxMistakes
              /\ state' = r.state
              /\ question' = None
              /\ pc' = IF panics THEN "panic" ELSE "run_loop"
              /\ last' = [NoCall EXCEPT !.op = "answer_question",
                                        !.readline = Some(rl),
                                        !.hint = Some(QuestionHint),
                                        !.response = Some(response),
                                        !.q = question,
                                        !.answer = Some(response.input),
                                        !.correct = IF r.panic THEN None
                                                    ELSE Some(r.ret),
                                        !.overflow = panics]
              /\ count' = [count EXCEPT
                              !.answer = @ + 1,
                              !.wrong = IF r.ret \/ r.panic THEN @ ELSE @ + 1,
                              !.script = Followed(@, response.input)]
    /\ UNCHANGED <<build, stdin, file, loaded>>

\* a prompt whose response is Return(input): the input goes to
\* answer_question; a correct answer is notified and ends the inner loop, an
\* incorrect one prompts again; a panic of answer_question or of
\* notify_correct ends the process
RunLoopAnswer ==
    /\ pc = "wait_for_input"
    /\ \E rl \in ReadlineResults(state.entries) :
          LET response == wait_for_input(rl)
              r == answer_question(state, question[1], response.input)
              panics == r.panic \/ (r.ret /\ notify_correct(question[1], r.state) = PANIC)
          IN  /\ response.tag = "Return"
              /\ r.ret \/ r.panic \/ state.mistakes < MaxMistakes
              /\ state' = r.state
              /\ question' = IF r.ret \/ panics THEN None ELSE question
              /\ pc' = IF panics THEN "panic"
                       ELSE IF r.ret THEN "run_loop" ELSE "wait_for_input"
              /\ last' = [NoCall EXCEPT !.op = "answer_question",
                                        !.readline = Some(rl),
                                        !.hint = Some(QuestionHint),
                                        !.response = Some(response),
                                        !.q = question,
                                        !.answer = Some(response.input),
                                        !.correct = IF r.panic THEN None
                                                    ELSE Some(r.ret),
                                        !.overflow = panics]
              /\ count' = [count EXCEPT
                              !.answer = @ + 1,
                              !.wrong = IF r.ret \/ r.panic THEN @ ELSE @ + 1,
                              !.script = Followed(@, response.input)]
    /\ UNCHANGED <<build, stdin, file, loaded>>

\* the Quit arm as it would be with break in place of break 'outer: only the
\* inner loop ends and the next question is presented
RunLoopQuit_inner_break ==
    /\ pc = "wait_for_input"
    /\ \E rl \in ReadlineResults(state.entries) :
          LET response == wait_for_input(rl)
          IN  /\ response.tag = "Quit"
              /\ last' = [NoCall EXCEPT !.op = "quit",
                                        !.readline = Some(rl),
                                        !.hint = Some(QuestionHint),
                                        !.response = Some(response),
                                        !.q = question]
    /\ question' = None
    /\ pc' = "run_loop"
    /\ UNCHANGED <<build, stdin, file, state, count, loaded>>

\* a prompt whose response is Quit: break 'outer, run_loop returns Ok
RunLoopQuit ==
    /\ pc = "wait_for_input"
    /\ \E rl \in ReadlineResults(state.entries) :
          LET response == wait_for_input(rl)
          IN  /\ response.tag = "Quit"
              /\ last' = [NoCall EXCEPT !.op = "quit",
                                        !.readline = Some(rl),
                                        !.hint = Some(QuestionHint),
                                        !.response = Some(response),
                                        !.q = question]
    /\ question' = None
    /\ pc' = "save_scores"
    /\ UNCHANGED <<build, stdin, file, state, count, loaded>>

\* a prompt that fails with another ReadlineError: the ? operator returns it
\* from run_loop, and expect("run loop") in main panics on it
RunLoopError ==
    /\ pc = "wait_for_input"
    /\ \E rl \in ReadlineResults(state.entries) :
          LET response == wait_for_input(rl)
          IN  /\ response.tag = "Err"
              /\ last' = [NoCall EXCEPT !.op = "error",
                                        !.readline = Some(rl),
                                        !.hint = Some(QuestionHint),
                                        !.response = Some(response),
                                        !.q = question]
    /\ question' = None
    /\ pc' = "panic"
    /\ UNCHANGED <<build, stdin, file, state, count, loaded>>

\* the last statement of main: save_scores on the scores of the state
SaveScores ==
    /\ pc = "save_scores"
    /\ \E order \in Orders(DOMAIN state.scores) :
          file' = save_scores(file, state.scores, order)
    /\ pc' = "exit"
    /\ last' = [NoCall EXCEPT !.op = "save_scores"]
    /\ count' = [count EXCEPT !.save = @ + 1]
    /\ UNCHANGED <<build, stdin, state, question, loaded>>

\* the next launch reads the score file the session left: loaded is the
\* io::Result of its load_scores, on whose error that launch panics
Relaunch ==
    /\ pc = "exit"
    /\ loaded' = Some(load_scores(file))
    /\ pc' = "relaunched"
    /\ last' = [NoCall EXCEPT !.op = "load_scores"]
    /\ UNCHANGED <<build, stdin, file, state, question, count>>

Next ==
    \/ RunLoopNext
    \/ RunLoopAnswer
    \/ RunLoopQuit
    \/ RunLoopError
    \/ SaveScores
    \/ Relaunch

Spec == Init /\ [][Next]_vars

\* the steps main takes on its own happen: the head of the outer loop and
\* the call of save_scores after run_loop returned.  What the user types at
\* a prompt, and when, is left open
FairSpec == Spec /\ WF_vars(RunLoopNext) /\ WF_vars(SaveScores)

(***************************************************************************)
(* A GameState on its own: next_question and answer_question called in any *)
(* order, answer_question with any Question that next_question returned.   *)
(***************************************************************************)
\* the Questions next_question has returned so far
Returned(self) ==
    {[index |-> i, entry |-> self.entries[i + 1]] : i \in 0..(self.progress - 1)}

\* the answers submitted
Answers(self) ==
    {TypedWrong, TypedUpper, << >>}
        \cup {self.entries[i].term : i \in DOMAIN self.entries}

InitGame ==
    /\ build \in Builds
    /\ stdin \in InputStreams
    /\ file \in {f \in ScoreFiles : load_scores(f) # InvalidData}
    /\ state = new_state(stdin, file)
    /\ pc = "game"
    /\ question = None
    /\ last = NoCall
    /\ count = [NoCount EXCEPT !.launch = state.scores]
    /\ loaded = None

CallNextQuestion ==
    /\ pc = "game"
    /\ count.next + count.answer < MaxCalls
    /\ LET r == next_question(state)
       IN  /\ state' = r.state
           /\ question' = r.ret
           /\ last' = [NoCall EXCEPT !.op = "next_question", !.asked = r.ret]
    /\ count' = [count EXCEPT !.next = @ + 1]
    /\ UNCHANGED <<build, stdin, file, pc, loaded>>

CallAnswerQuestion ==
    /\ pc = "game"
    /\ count.next + count.answer < MaxCalls
    /\ \E q \in Returned(state), answer \in Answers(state) :
          LET r == answer_question(state, q, answer)
          IN  /\ state' = r.state
              /\ pc' = IF r.panic THEN "panic" ELSE "game"
              /\ last' = [NoCall EXCEPT !.op = "answer_question",
                                        !.q = Some(q),
                                        !.answer = Some(answer),
                                        !.correct = IF r.panic THEN None
                                                    ELSE Some(r.ret),
                                        !.overflow = r.panic]
    /\ count' = [count EXCEPT !.answer = @ + 1]
    /\ UNCHANGED <<build, stdin, file, question, loaded>>

NextGame ==
    \/ CallNextQuestion
    \/ CallAnswerQuestion

SpecGame == InitGame /\ [][NextGame]_vars

(***************************************************************************)
(* Loading: main reads any stream of lines, and the questions of the       *)
(* GameState it makes are then asked for.                                  *)
(***************************************************************************)
\* the longest line of a one-line stream
MaxLineLen == 5
\* the most lines of a stream
MaxStreamLen == 3

\* the strings over an alphabet of at most n characters
StringsOver(alphabet, n) == UNION {[1..k -> alphabet] : k \in 0..n}

\* the characters Entry::parse tells apart, and one it does not
LineAlphabet == {"a", " ", "/", ";"}

\* a line whose first phrase holds a second ";" after its comment began
LineNested ==
    <<"g", "o", " ", "/", " ", "t", "o", " ", "m", "o", "v", "e", " ", ";",
      "f", "a", "s", "t", ";", " ", "a", "w", "a", "y", "/", " ", "t", "o",
      " ", "l", "e", "a", "v", "e", " ", "/">>

\* the lines a longer stream is made of
StreamLines ==
    {<< >>, LineNote, LineNoTerm, LineDog, LineCat, LineCat2, LineColonQ,
     LineTabbed, LineNested}

\* the streams: every line over the alphabet alone, and every sequence of
\* the stream lines
LoadStreams ==
    {<<line>> : line \in StringsOver(LineAlphabet, MaxLineLen)}
        \cup StringsOver(StreamLines, MaxStreamLen)

InitLoad ==
    /\ build \in Builds
    /\ stdin \in LoadStreams
    /\ file = NoFile
    /\ state = NoState
    /\ pc = "main"
    /\ question = None
    /\ last = NoCall
    /\ count = NoCount
    /\ loaded = None

\* main up to GameState::new
LoadEntries ==
    /\ pc = "main"
    /\ state' = new_state(stdin, file)
    /\ pc' = IF state' = NoState THEN "panic" ELSE "game"
    /\ last' = [NoCall EXCEPT !.op = "load_entries"]
    /\ count' = IF state' = NoState THEN count
                ELSE [count EXCEPT !.launch = state'.scores]
    /\ UNCHANGED <<build, stdin, file, question, loaded>>

NextLoad ==
    \/ LoadEntries
    \/ CallNextQuestion

SpecLoad == InitLoad /\ [][NextLoad]_vars

(***************************************************************************)
(* Hinting: while a prompt waits, Editor::readline asks the QuestionHint   *)
(* for the hint of the line typed so far.                                  *)
(***************************************************************************)
\* the longest term of the one-entry streams
MaxTermLen == 3

\* letters of both cases and two characters that are no letter
TermAlphabet == {"a", "Z", "-", " "}

\* the one-line streams whose line is a term and nothing more
TermStreams ==
    {<<term>> : term \in StringsOver(TermAlphabet, MaxTermLen) \ {<< >>}}

\* the lines typed so far at a prompt, up to one character more than the
\* longest term
TypedSoFar == StringsOver({"a", "-"}, MaxTermLen + 1)

InitHint ==
    /\ build \in Builds
    /\ stdin \in TermStreams
    /\ file = NoFile
    /\ state = new_state(stdin, file)
    /\ pc = "run_loop"
    /\ question = None
    /\ last = NoCall
    /\ count = [NoCount EXCEPT !.launch = state.scores]
    /\ loaded = None

\* Editor::readline calls hint on the helper wait_for_input set
Hint ==
    /\ pc = "wait_for_input"
    /\ \E line \in TypedSoFar :
          last' = [NoCall EXCEPT !.op = "hint",
                                 !.hint = Some(QuestionHint),
                                 !.q = question,
                                 !.line = Some(line),
                                 !.hinted = hint(QuestionHint, line)]
    /\ UNCHANGED <<build, stdin, file, pc, state, question, count, loaded>>

NextHint ==
    \/ RunLoopNext
    \/ RunLoopAnswer
    \/ Hint

SpecHint == InitHint /\ [][NextHint]_vars

(***************************************************************************)
(* The properties.                                                         *)
(***************************************************************************)
\* the score a term has in a mapping, an absent term counting as 0 and 0
ScoreIn(scores, term) ==
    IF term \in DOMAIN scores THEN scores[term]
    ELSE [correct |-> 0, incorrect |-> 0]

\* b is the number a + 1: the u32 after a, and a is not u32::MAX
IsSucc(a, b) ==
    IF lo16(a) = HALF - 1
    THEN lo16(b) = 0 /\ hi16(b) = hi16(a) + 1
    ELSE lo16(b) = lo16(a) + 1 /\ hi16(b) = hi16(a)

\* a step that is one call of answer_question
AnswerStep ==
    /\ last'.op = "answer_question"
    /\ count'.answer = count.answer + 1

\* a step that is one call of next_question
NextStep ==
    /\ last'.op = "next_question"
    /\ count'.next = count.next + 1

\* C1: however the session ends (all questions answered, a quit, an input
\* error), save_scores has run on the scores by the time the process is over.
C1_SavedOnEveryEnd ==
    (Launched /\ pc \in {"exit", "relaunched", "panic"}) => count.save >= 1

\* C2: answer_question returns true and leaves mistakes alone when the text is
\* the term of the question, character for character; for any other text it
\* returns false and adds 1 to mistakes; and mistakes changes only so, or by
\* the reset to 0 of a next_question that returns a question.
C2_AnswerQuestion ==
    [][ /\ AnswerStep =>
            IF last'.answer[1] = last'.q[1].entry.term
            THEN /\ last'.correct = Some(TRUE)
                 /\ state'.mistakes = state.mistakes
            ELSE /\ last'.correct = Some(FALSE)
                 /\ state'.mistakes = state.mistakes + 1
        /\ state'.mistakes # state.mistakes =>
            \/ AnswerStep /\ last'.correct = Some(FALSE)
            \/ NextStep /\ last'.asked # None /\ state'.mistakes = 0 ]_vars

\* C3: a correct answer given with mistakes = 0 adds 1 to the correct counter
\* of the term and leaves its incorrect counter; one given with mistakes >= 1
\* adds 1 to incorrect and leaves correct; a term the mapping lacks counts as
\* 0 and 0 before that, and no other term's score changes.
C3_PolicyA ==
    [][ AnswerStep /\ last'.answer[1] = last'.q[1].entry.term =>
            LET term == last'.q[1].entry.term
                before == ScoreIn(state.scores, term)
                after == ScoreIn(state'.scores, term)
            IN  /\ DOMAIN state'.scores = DOMAIN state.scores \cup {term}
                /\ state.mistakes = 0 =>
                      /\ IsSucc(before.correct, after.correct)
                      /\ after.incorrect = before.incorrect
                /\ state.mistakes >= 1 =>
                      /\ IsSucc(before.incorrect, after.incorrect)
                      /\ after.correct = before.correct
                /\ \A t \in DOMAIN state.scores \ {term} :
                      state'.scores[t] = state.scores[t] ]_vars

\* C4: a wrong submission leaves the Score mapping, the entries and progress
\* as they were; all it does is add 1 to mistakes.
C4_WrongSubmissionFrame ==
    [][ AnswerStep /\ last'.answer[1] # last'.q[1].entry.term =>
            /\ state'.scores = state.scores
            /\ state'.entries = state.entries
            /\ state'.progress = state.progress
            /\ state'.mistakes = state.mistakes + 1 ]_vars

\* the wrong submission is a term of the mapping, though not the question's
C4_Witness ==
    /\ last.op = "answer_question"
    /\ last.correct = Some(FALSE)
    /\ last.answer[1] \in DOMAIN state.scores
    /\ last.answer[1] # last.q[1].entry.term

\* C5: on a fresh GameState over n entries the call number k of
\* next_question (k = 0..n-1) returns the Question of index k and entries[k]
\* and sets mistakes to 0; every later call returns None; and once n calls
\* were made progress is n.
C5_NextQuestionSequence ==
    /\ [][ NextStep =>
            LET k == count.next
            IN  IF k < Len(state.entries)
                THEN /\ last'.asked =
                            Some([index |-> k, entry |-> state.entries[k + 1]])
                     /\ state'.mistakes = 0
                ELSE last'.asked = None ]_vars
    /\ [](count.next >= Len(state.entries) =>
            state.progress = Len(state.entries))

\* the call after the last question of three, made after wrong answers
C5_Witness ==
    /\ Len(state.entries) = 3
    /\ count.next = 4
    /\ count.answer >= 1
    /\ last.op = "next_question"
    /\ last.asked = None

\* C6: whatever the order of the calls, 0 <= progress <= len(entries),
\* progress never goes down, the entries never change, and next_question
\* returns None exactly when progress = len(entries).
C6_ProgressInvariant ==
    /\ [](state.progress >= 0 /\ state.progress <= Len(state.entries))
    /\ [][ /\ state'.progress >= state.progress
           /\ state'.entries = state.entries
           /\ NextStep =>
                (last'.asked = None <=> state.progress = Len(state.entries)) ]_vars

\* progress is at the end of two entries and answers are still submitted
C6_Witness ==
    /\ Len(state.entries) = 2
    /\ state.progress = 2
    /\ last.op = "answer_question"
    /\ count.next >= 3

\* C7: after save_scores the score file holds one line term TAB correct TAB
\* incorrect for each key of the saved mapping, in some order, and nothing
\* else, whatever it held before.
C7_FileOverwritten ==
    pc = "exit" =>
        /\ file.exists
        /\ \E order \in Orders(DOMAIN state.scores) :
              file.data = written(state.scores, order)

\* C8: load_scores of the file save_scores wrote gives the mapping saved;
\* stated here for the files that hold the written lines and nothing else.
C8_RoundTrip ==
    /\ pc = "relaunched"
    /\ \E order \in Orders(DOMAIN state.scores) :
          file.data = written(state.scores, order)
    => loaded = Some(Ok(state.scores))

\* C9: when the line typed at the prompt of a question is the term of its
\* entry, the line goes to answer_question and the answer is correct.
C9_TermAnswers ==
    /\ last.readline # None
    /\ last.readline[1].kind = "Ok"
    /\ last.readline[1].input = last.q[1].entry.term
    => /\ last.op = "answer_question"
       /\ last.answer = Some(last.q[1].entry.term)
       /\ last.correct = Some(TRUE)

\* C10: a typed line is the quit signal exactly when it is ":" followed by
\* q, qu, qui or quit; any other line, ":" alone among them, is a submitted
\* answer handed on as typed.
C10_CommandParsing ==
    /\ last.readline # None
    /\ last.readline[1].kind = "Ok"
    => LET input == last.readline[1].input
       IN  IF /\ input # << >>
              /\ input[1] = ":"
              /\ Tail(input) \in {SubSeq(QUIT, 1, n) : n \in 1..Len(QUIT)}
           THEN last.response = Some(Quit)
           ELSE last.response = Some(Return(input))

\* C11: a quit command, an interrupt or the end of input ends the session at
\* once: the step goes to the flush with the scores as they were, no question
\* and no prompt follows, the flush writes that mapping, and it runs once.
C11_QuitEndsSession ==
    /\ [][ /\ ( /\ pc = "wait_for_input"
                /\ last'.readline # None
                /\ \/ last'.readline[1].kind \in {"Interrupted", "Eof"}
                   \/ last'.readline[1] = [kind |-> "Ok", input |-> <<":">> \o QUIT] )
              => last'.response = Some(Quit)
           /\ (pc = "wait_for_input" /\ last'.response = Some(Quit))
              => /\ pc' = "save_scores"
                 /\ state' = state
                 /\ question' = None
                 /\ count' = count
           /\ pc = "save_scores"
              => /\ pc' = "exit"
                 /\ state' = state
                 /\ last'.readline = None
                 /\ question' = None
                 /\ count' = [count EXCEPT !.save = 1]
                 /\ \E order \in Orders(DOMAIN state.scores) :
                       starts_with(file'.data, written(state.scores, order))
           /\ pc \in {"exit", "relaunched"}
              => /\ state' = state
                 /\ last'.readline = None
                 /\ question' = None
                 /\ count' = count ]_vars
    /\ [](pc = "save_scores" => count.save = 0)
    /\ [](pc \in {"exit", "relaunched"} => count.save = 1)

\* the session was left at a question that was not the first, after a scored
\* answer, and the flush has run
C11_Witness ==
    /\ pc = "exit"
    /\ last.op = "save_scores"
    /\ state.progress = 2
    /\ Len(state.entries) = 3
    /\ count.answer >= 1
    /\ state.scores # count.launch
    /\ count.save = 1

\* the place of the first space that a slash follows, or 0
SpaceSlash(line) ==
    IF \E i \in 1..(Len(line) - 1) : line[i] = " " /\ line[i + 1] = "/"
    THEN CHOOSE i \in 1..(Len(line) - 1) :
            /\ line[i] = " " /\ line[i + 1] = "/"
            /\ \A j \in 1..(i - 1) : ~(line[j] = " " /\ line[j + 1] = "/")
    ELSE 0

\* the text before the first " /", the whole line when it has none
TermPart(line) ==
    IF SpaceSlash(line) = 0 THEN line
    ELSE SubSeq(line, 1, SpaceSlash(line) - 1)

\* the phrase segment: the text after the first " /"
PhrasePart(line) ==
    IF SpaceSlash(line) = 0 THEN << >>
    ELSE SubSeq(line, SpaceSlash(line) + 2, Len(line))

\* the texts between the slashes of the phrase segment; the last one is the
\* text no slash closes
Pieces(line) == split(PhrasePart(line), "/")

\* the text of a piece before its first ";" and the text after it
BeforeSemicolon(piece) == SubSeq(piece, 1, FindFrom(piece, ";", 1) - 1)
AfterSemicolon(piece) ==
    SubSeq(piece, FindFrom(piece, ";", 1) + 1, Len(piece))

\* a line that gives no entry: empty, or starting with ";"
Skipped(line) == line = << >> \/ line[1] = ";"
NotSkipped(line) == ~Skipped(line)

\* the stream was one line and gave an entry
OneEntryLoaded ==
    /\ pc = "game"
    /\ Len(stdin) = 1
    /\ Len(state.entries) = 1

\* C12: a ";" read in comment mode is literal content: it is appended to the
\* comment of the phrase, and the parser stays in comment mode, so of a closed
\* phrase with more than one ";" the comment is all the text after the first.
C12_SemicolonInComment ==
    OneEntryLoaded =>
        \A i \in DOMAIN state.entries[1].phrases :
            LET piece == Pieces(stdin[1])[i]
            IN  Len(split(piece, ";")) > 2 =>
                    /\ state.entries[1].phrases[i].body = BeforeSemicolon(piece)
                    /\ state.entries[1].phrases[i].comment = AfterSemicolon(piece)

\* C13: every entry load_entries stores has a term that is not empty.
C13_TermNotEmpty ==
    pc = "game" =>
        \A i \in DOMAIN state.entries : state.entries[i].term # << >>

\* C14: the phrases are as many as the slashes of the phrase segment; phrase
\* i is made of the text between slash i-1 and slash i, what is before its
\* first ";" being the body and what is after it the comment; the text after
\* the last slash is in no phrase.
C14_PhraseSegmentation ==
    OneEntryLoaded =>
        LET pieces == Pieces(stdin[1])
            phrases == state.entries[1].phrases
        IN  /\ Len(phrases) = Len(pieces) - 1
            /\ \A i \in DOMAIN phrases :
                  /\ phrases[i].body = BeforeSemicolon(pieces[i])
                  /\ phrases[i].comment = AfterSemicolon(pieces[i])

\* C15: Entry::parse gives no entry exactly for the empty line and the lines
\* starting with ";"; load_entries stores the entries of all other lines in
\* the order of the input, and the index of a Question is the place of its
\* entry among them.
C15_SkippedLines ==
    pc = "game" =>
        LET kept == SelectSeq(stdin, NotSkipped)
        IN  /\ \A i \in DOMAIN stdin :
                  parse(stdin[i]) = None <=> Skipped(stdin[i])
            /\ Len(state.entries) = Len(kept)
            /\ \A i \in DOMAIN state.entries :
                  /\ Some(state.entries[i]) = parse(kept[i])
                  /\ state.entries[i].term = TermPart(kept[i])
            /\ (last.op = "next_question" /\ last.asked # None) =>
                  /\ last.asked[1].index + 1 \in DOMAIN kept
                  /\ Some(last.asked[1].entry) =
                        parse(kept[last.asked[1].index + 1])

\* the second question asked comes from the third line, the comment line
\* between having been skipped
C15_Witness ==
    /\ pc = "game"
    /\ stdin = <<LineCat, LineNote, LineDog>>
    /\ last.op = "next_question"
    /\ last.asked # None
    /\ last.asked[1].index = 1
    /\ last.asked[1].entry.term = SubSeq(LineDog, 1, 3)

\* the masked term as the hint is to show it with nothing typed: a character
\* that is no ASCII letter as it is, a letter as it is when fewer than k
\* letters stand before it, the mask otherwise
LettersBefore(term, j) ==
    Cardinality({m \in 1..(j - 1) : is_ascii_alphabetic(term[m])})

MaskedTerm(term, k) ==
    [j \in 1..Len(term) |->
        IF is_ascii_alphabetic(term[j]) /\ LettersBefore(term, j) >= k
        THEN MASK ELSE term[j]]

\* C16: with nothing typed the hint shows every character that is no ASCII
\* letter, shows a letter exactly when fewer than mistakes letters stand
\* before it and the mask for every other letter; with mistakes = 0 no
\* letter is shown; what a smaller mistakes shows, this mistakes shows too;
\* and i - symbols never overflows
C16_HintMasking ==
    (last.op = "hint" /\ last.line = Some(<< >>))
    => LET term == last.hint[1].entry.term
           k == last.hint[1].mistakes
           shown == last.hinted[1]
       IN  /\ last.hinted # None
           /\ Len(shown) = Len(term)
           /\ \A j \in 1..Len(term) :
                 /\ shown[j] # Overflow
                 /\ ~is_ascii_alphabetic(term[j]) => shown[j] = term[j]
                 /\ is_ascii_alphabetic(term[j])
                    => /\ LettersBefore(term, j) < k => shown[j] = term[j]
                       /\ LettersBefore(term, j) >= k => shown[j] = MASK
                       /\ k = 0 => shown[j] = MASK
           /\ \A lower \in 0..k :
                 LET before == hint([entry |-> last.hint[1].entry,
                                     mistakes |-> lower], << >>)[1]
                 IN  \A j \in 1..Len(term) :
                        before[j] = term[j] => shown[j] = term[j]

\* after one wrong answer the hint of "-aZ" with nothing typed is "-a_": the
\* letter behind the symbol is shown, the next letter masked
C16_Witness ==
    /\ last.op = "hint"
    /\ last.line = Some(<< >>)
    /\ last.hint[1].entry.term = <<"-", "a", "Z">>
    /\ last.hint[1].mistakes = 1
    /\ last.hinted = Some(<<"-", "a", MASK>>)

\* C17: with n characters typed, whatever they are, the hint is the masked
\* term of the empty line without its first n characters; its length is
\* max(0, len(term) - n), and it is empty when n >= len(term)
C17_HintSuffix ==
    last.op = "hint"
    => LET term == last.hint[1].entry.term
           k == last.hint[1].mistakes
           n == Len(last.line[1])
           whole == MaskedTerm(term, k)
       IN  /\ last.hinted = Some(SubSeq(whole, n + 1, Len(whole)))
           /\ last.hinted = Some(skip(hint(last.hint[1], << >>)[1], n))
           /\ Len(last.hinted[1]) = IF Len(term) >= n THEN Len(term) - n ELSE 0
           /\ n >= Len(term) => last.hinted[1] = << >>

\* with "a" typed after one wrong answer the hint of "aZ-" is "_-": the
\* masked second letter and the symbol, the shown first letter taken off
C17_Witness ==
    /\ last.op = "hint"
    /\ last.line = Some(<<"a">>)
    /\ last.hint[1].entry.term = <<"a", "Z", "-">>
    /\ last.hint[1].mistakes = 1
    /\ last.hinted = Some(<<MASK, "-">>)

\* the mapping the scenario ends with
ScenarioScores ==
    insert(insert(EmptyScores, Scenario[1], [correct |-> 1, incorrect |-> 0]),
           Scenario[3], [correct |-> 0, incorrect |-> 1])

\* the session runs the scenario: the two entries, no score loaded
InScenario == stdin = <<LineDog, LineCat>> /\ count.launch = EmptyScores

\* C18: with the entries of "dog / an animal /" and "cat / a feline /" and
\* no score loaded, the submissions "dog", "wrong", "cat" are asked for by
\* question 0 (dog) and then, twice, by question 1 (cat); after them no
\* question is left and the session ends; the mapping is then dog 1/0 and
\* cat 0/1, and the saved file holds the lines of these two terms and
\* nothing else
C18_Scenario ==
    /\ [](InScenario =>
            /\ (pc = "wait_for_input" /\ count.script = 0)
               => /\ question = Some([index |-> 0, entry |-> parse(LineDog)[1]])
                  /\ question[1].entry.term = Scenario[1]
                  /\ count.next = 1
            /\ (pc = "wait_for_input" /\ count.script \in {1, 2})
               => /\ question = Some([index |-> 1, entry |-> parse(LineCat)[1]])
                  /\ question[1].entry.term = Scenario[3]
                  /\ count.next = 2
            /\ count.script = Len(Scenario)
               => /\ pc \in {"run_loop", "save_scores", "exit", "relaunched"}
                  /\ question = None
                  /\ state.progress = 2
                  /\ state.scores = ScenarioScores
                  /\ count.answer = Len(Scenario)
                  /\ pc # "run_loop" => count.next = 3
                  /\ pc \in {"exit", "relaunched"}
                     => /\ file.exists
                        /\ \E order \in Orders(DOMAIN ScenarioScores) :
                              file.data = written(ScenarioScores, order)
                        /\ Len(lines(file.data)) = 2
                        /\ load_scores(file) = Ok(ScenarioScores))
    /\ [][(InScenario /\ count.script = Len(Scenario) /\ pc = "run_loop")
            => (pc' = "save_scores" /\ last'.asked = None
                /\ state'.scores = state.scores)]_vars

\* the scenario ran to its end and the next launch loaded what it saved
C18_Witness ==
    /\ InScenario
    /\ count.script = Len(Scenario)
    /\ pc = "relaunched"
    /\ count.next = 3
    /\ loaded = Some(Ok(ScenarioScores))
    /\ ScenarioScores[Scenario[3]] = [correct |-> 0, incorrect |-> 1]

\* C19: run_loop presents the questions in the order of their index, each
\* once (the k-th call of next_question gives index k - 1); a question after
\* the first is presented right after the one before it was answered
\* correctly; an incorrect answer leaves the same question at the prompt;
\* and the QuestionHint of every prompt carries as mistakes the number of
\* incorrect submissions made since the question was presented, which is 0
\* at its first prompt
C19_SessionOrder ==
    /\ [](pc = "wait_for_input"
            => /\ question # None
               /\ question[1].index = count.next - 1
               /\ question[1].entry = state.entries[question[1].index + 1]
               /\ state.mistakes = count.wrong)
    /\ [][/\ (last'.op = "next_question" /\ last'.asked # None)
             => /\ last'.asked[1].index = count.next
                /\ question' = last'.asked
                /\ pc' = "wait_for_input"
                /\ state'.mistakes = 0
                /\ count'.wrong = 0
                /\ last'.asked[1].index > 0
                   => /\ last.op = "answer_question"
                      /\ last.correct = Some(TRUE)
                      /\ last.q[1].index = last'.asked[1].index - 1
          /\ (last'.op = "answer_question" /\ last'.correct = Some(FALSE))
             => /\ pc' = "wait_for_input"
                /\ question' = question
                /\ last'.q = question
                /\ count'.wrong = count.wrong + 1
                /\ count'.next = count.next
          /\ last'.hint # None
             => /\ pc = "wait_for_input"
                /\ last'.hint[1].mistakes = count.wrong
                /\ last'.hint[1].entry = question[1].entry
                /\ last.op = "next_question" => last'.hint[1].mistakes = 0
       ]_vars

\* the second question is answered correctly at its second prompt, whose
\* hint carries one mistake, after the first question took a wrong answer
\* too: four answers in all
C19_Witness ==
    /\ last.op = "answer_question"
    /\ last.correct = Some(TRUE)
    /\ last.q[1].index = 1
    /\ last.hint[1].mistakes = 1
    /\ count.answer = 4
    /\ count.next = 2

RECURSIVE SumHalves(_)
\* the sums of the upper and of the lower 16 bits of all counters of a
\* mapping
SumHalves(scores) ==
    IF DOMAIN scores = {} THEN [hi |-> 0, lo |-> 0]
    ELSE LET t == CHOOSE t \in DOMAIN scores : TRUE
             rest == SumHalves([u \in DOMAIN scores \ {t} |-> scores[u]])
         IN  [hi |-> rest.hi + hi16(scores[t].correct)
                            + hi16(scores[t].incorrect),
              lo |-> rest.lo + lo16(scores[t].correct)
                            + lo16(scores[t].incorrect)]

\* the number n more than the sum of correct + incorrect over all terms of
\* a mapping, as a number (no wrap): its multiples of 2^16 and the rest
TotalTriesPlus(scores, n) ==
    LET sum == SumHalves(scores)
    IN  [hi |-> sum.hi + ((sum.lo + n) \div HALF), lo |-> (sum.lo + n) % HALF]

\* the sum of correct + incorrect over all terms of a mapping
TotalTries(scores) == TotalTriesPlus(scores, 0)

\* no prompt ends with a quit signal or an error of the input channel
NoQuitNoError == [](last.op \notin {"quit", "error"})

\* a question at the prompt eventually receives a submission equal to its
\* term
TermSubmitted ==
    (pc = "wait_for_input")
        ~> (/\ last.op = "answer_question"
            /\ last.answer = Some(last.q[1].entry.term))

\* C20: in a session without quit signal and input error in which every
\* question prompted eventually receives its term, run_loop returns and
\* save_scores runs; from the return of run_loop on progress is the number
\* of entries and the sum of correct + incorrect over all terms is its sum
\* at launch plus the number of entries; and save_scores has run once when
\* main exits
C20_Termination ==
    (Launched /\ NoQuitNoError /\ TermSubmitted)
    => /\ <>(pc = "exit")
       /\ [](pc \in {"save_scores", "exit", "relaunched"}
               => /\ state.progress = Len(state.entries)
                  /\ count.next = Len(state.entries) + 1
                  /\ TotalTries(state.scores)
                        = TotalTriesPlus(count.launch, Len(state.entries)))
       /\ [](pc = "save_scores" => count.save = 0)
       /\ [](pc \in {"exit", "relaunched"} => count.save = 1)

====
